---------------------------- MODULE Spec2Model ----------------------------
(***************************************************************************)
(* Cart mutation engine of the shop service (package models, cart file).   *)
(*                                                                         *)
(* The store is a MongoDB database with a cart collection and a product    *)
(* collection.  AddToCart, UpdateCartItem and RemoveCartItem run their     *)
(* cart read and cart write inside session.WithTransaction: the callback   *)
(* reads a snapshot, the write conflicts when the document it read was     *)
(* written after the snapshot, and WithTransaction then runs the callback  *)
(* again.  ClearCart and GetUserCart read and write without a transaction. *)
(* The product is read before the transaction starts.                      *)
(*                                                                         *)
(* Money is counted in cents (integers); math.Round(x*100)/100 is the      *)
(* operator Round.   Display fields (image, slug, title) and timestamps    *)
(* are not part of the model.                                              *)
(***************************************************************************)
EXTENDS Integers, Sequences, FiniteSets, TLC

\* ------------------------------------------------------------------ bounds
MaxCalls == 3
MaxQty == 2
\* the pricing runs: prices of 1 .. MaxPrice cents, additions of up to
\* MaxPriceQty units, MaxPriceCalls additions
MaxPrice == 12
MaxPriceQty == 3
MaxPriceCalls == 2

Procs == {"a", "b"}
Users == {"u1", "u2"}

\* ObjectIDs of cart items and carts are numbers; ZeroID is the zero ObjectID
\* (IsZero()), CallerIDs are ids a request body may carry, FreshIDs and CartIDs
\* are the ids primitive.NewObjectID() hands out.
ZeroID == 0
CallerIDs == {1}
FreshIDs == 2 .. (MaxCalls + 2)
CartIDs == 1 .. (MaxCalls + 1)

\* Product ids: "p1" and "p2" are in the product collection, "p9" is not;
\* "" is the zero product id.
ProductIDs == {"p1", "p2"}

VARIABLES
    carts,      \* the cart collection: sequence of cart documents, natural order
    products,   \* the product collection: product id -> document
    proc,       \* per request: position in the handler and its local variables
    ncalls      \* number of requests started so far

vars == <<carts, products, proc, ncalls>>

\* ------------------------------------------------------------- data shapes
NoCart == [id |-> ZeroID, user_id |-> "", items |-> <<>>, total_amount |-> 0]

NoItem == [id |-> ZeroID, productid |-> "", quantity |-> 0, color |-> "",
           model |-> "", price |-> 0, totalprice |-> 0]

NoProduct == [price |-> 0, discount |-> 0, stock |-> 0]

NoActions == [Increment |-> FALSE, Decrement |-> FALSE]

\* A request's local variables.  pc is its position, branch the path its
\* handler took, res what it returned ("" while running, "ok" for nil).
Idle == [pc |-> "idle", op |-> "", user |-> "", item |-> NoItem,
         actions |-> NoActions, cartItemID |-> ZeroID, product |-> NoProduct,
         found |-> FALSE, cart |-> NoCart, stale |-> FALSE, res |-> "",
         branch |-> "", ret |-> NoCart]

\* A finished request keeps what it was, its item and what it returned.
Done(r, res, branch, ret) ==
    [Idle EXCEPT !.pc = "done", !.op = r.op, !.user = r.user, !.item = r.item,
                 !.res = res, !.branch = branch, !.ret = ret]

\* A request that returned an error keeps all it was called with.
Rejected(r, res) ==
    [Done(r, res, "", NoCart) EXCEPT !.actions = r.actions, !.cartItemID = r.cartItemID]

\* ------------------------------------------------------------- money rules
\* math.Round(num/den): nearest integer, halves away from zero (num, den >= 0 here
\* or num < 0 handled by symmetry).
Round(num, den) ==
    IF num >= 0 THEN (2 * num + den) \div (2 * den)
                ELSE 0 - ((2 * (0 - num) + den) \div (2 * den))

\* The (price in cents, discount) pairs, among prices up to 20 cents and the
\* prices of the products of this model, for which the float64 value of
\* (product.Price - product.Price*(product.Discount/100))*100 comes out just
\* below the half cent that it is exactly, so that math.Round rounds it down.
LosesHalfCent == {<<5, 90>>, <<10, 75>>, <<15, 90>>, <<18, 75>>}

\* item.Price = product.Price; if product.Discount > 0 the discounted price
\* rounded to cents, as float64 arithmetic rounds it.
EffectivePrice(product) ==
    IF product.discount > 0
        THEN Round(product.price * (100 - product.discount), 100)
                 - (IF <<product.price, product.discount>> \in LosesHalfCent THEN 1 ELSE 0)
        ELSE product.price

\* math.Round(price*float64(quantity)*100)/100
LineTotal(price, quantity) == Round(price * quantity, 1)

RECURSIVE SumTotalPrice(_)
SumTotalPrice(items) ==
    IF items = <<>> THEN 0
    ELSE Head(items).totalprice + SumTotalPrice(Tail(items))

\* totalAmount loop followed by math.Round(totalAmount*100)/100
CartTotal(items) == Round(SumTotalPrice(items), 1)

\* mutant: lines are matched by their identity
SameVariant_ByID(cartItem, item) == cartItem.id = item.id

\* mutant: the comparison of the earlier revision, without the model
SameVariant_NoModel(cartItem, item) ==
    /\ cartItem.productid = item.productid
    /\ cartItem.color = item.color

\* ----------------------------------------------------------- item matching
SameVariant(cartItem, item) ==
    /\ cartItem.productid = item.productid
    /\ cartItem.color = item.color
    /\ cartItem.model = item.model

\* index of the first element of items satisfying the loop's condition, 0 if none
FirstMatch(items, item) ==
    LET S == {i \in 1 .. Len(items) : SameVariant(items[i], item)}
    IN IF S = {} THEN 0 ELSE CHOOSE i \in S : \A j \in S : i <= j

FirstByID(items, cartItemID) ==
    LET S == {i \in 1 .. Len(items) : items[i].id = cartItemID}
    IN IF S = {} THEN 0 ELSE CHOOSE i \in S : \A j \in S : i <= j

\* mutant: the lines after the removed one are lost
RemoveAt_Truncates(s, i) == SubSeq(s, 1, i - 1)

RemoveAt(s, i) == SubSeq(s, 1, i - 1) \o SubSeq(s, i + 1, Len(s))

\* mutant: the filter on the owner is missing
FindOne_NoFilter(coll, userID) == IF Len(coll) = 0 THEN 0 ELSE 1

\* -------------------------------------------------------------- cart store
\* FindOne({"user_id": userID}): first matching document in natural order
FindOne(coll, userID) ==
    LET S == {i \in 1 .. Len(coll) : coll[i].user_id = userID}
    IN IF S = {} THEN 0 ELSE CHOOSE i \in S : \A j \in S : i <= j

IndexOfID(coll, id) ==
    LET S == {i \in 1 .. Len(coll) : coll[i].id = id}
    IN IF S = {} THEN 0 ELSE CHOOSE i \in S : TRUE

InFlight(p) == proc[p].pc \notin {"idle", "done"}

\* primitive.NewObjectID(): an id no live object carries
UsedItemIDs ==
    UNION {{carts[i].items[j].id : j \in 1 .. Len(carts[i].items)} : i \in 1 .. Len(carts)}
    \cup {proc[p].item.id : p \in {q \in Procs : InFlight(q)}}

NewItemID == CHOOSE n \in FreshIDs \ UsedItemIDs : \A m \in FreshIDs \ UsedItemIDs : n <= m

UsedCartIDs ==
    {carts[i].id : i \in 1 .. Len(carts)}
    \cup {proc[p].cart.id : p \in {q \in Procs : InFlight(q)}}

NewCartID == CHOOSE n \in CartIDs \ UsedCartIDs : \A m \in CartIDs \ UsedCartIDs : n <= m


\* ------------------------------------------------------ request parameters
Variants == {<<"p1", "red", "">>, <<"p1", "red", "pro">>, <<"p2", "red", "">>}

\* a price the caller put in the request body
CallerPrices == {7}

ReqItem(v, q, id) ==
    [id |-> id, productid |-> v[1], quantity |-> q, color |-> v[2],
     model |-> v[3], price |-> CHOOSE c \in CallerPrices : TRUE, totalprice |-> 0]

\* requests that pass validation and name a product of the collection; some
\* carry an item id of the caller's
ValidItems ==
    {ReqItem(v, q, ZeroID) : v \in Variants, q \in 1 .. MaxQty}
    \cup {ReqItem(<<"p1", "red", "">>, 1, id) : id \in CallerIDs}

\* requests the validator or the product lookup rejects
BadItems ==
    { ReqItem(<<"p1", "red", "">>, 0, ZeroID),     \* quantity missing
      ReqItem(<<"p1", "", "">>, 1, ZeroID),        \* color missing
      ReqItem(<<"", "red", "">>, 1, ZeroID),       \* product id missing
      ReqItem(<<"p9", "red", "">>, 1, ZeroID) }    \* no such product

ReqItems == ValidItems \cup BadItems

\* the items an owner's requests carry: "u1" sends every request, the other
\* owner only the plain one
ItemsOf(u) == IF u = "u1" THEN ReqItems ELSE {ReqItem(<<"p1", "red", "">>, 1, ZeroID)}

\* the three CartActions the request handler builds
ReqActions == { [Increment |-> TRUE, Decrement |-> FALSE],
                [Increment |-> FALSE, Decrement |-> TRUE],
                [Increment |-> FALSE, Decrement |-> FALSE] }

\* the product collection at start
InitialProducts ==
    [id \in ProductIDs |->
        IF id = "p1" THEN [price |-> 995, discount |-> 10, stock |-> 3]
                     ELSE [price |-> 250, discount |-> 0, stock |-> 1]]

\* product documents an administrator may store under a product id
ProductDocs(id) ==
    IF id = "p1"
        THEN {InitialProducts[id], [price |-> 500, discount |-> 0, stock |-> 1]}
        ELSE {InitialProducts[id], [price |-> 250, discount |-> 0, stock |-> 0]}

\* -------------------------------------------------------------------- init
Init ==
    /\ carts = <<>>
    /\ products = InitialProducts
    /\ proc = [p \in Procs |-> Idle]
    /\ ncalls = 0

\* ---------------------------------------------------------------- requests
\* a new request takes the first free slot
CanCall(p) ==
    /\ proc[p].pc \in {"idle", "done"}
    /\ ncalls < MaxCalls
    /\ \A q \in Procs : (q # p /\ ~InFlight(q)) => p = "a"

Call(p, r) ==
    /\ CanCall(p)
    /\ proc' = [proc EXCEPT ![p] = r]
    /\ ncalls' = ncalls + 1
    /\ UNCHANGED <<carts, products>>

\* validate.Struct(item) on CartItem's tags
ValidItem(item) ==
    /\ item.productid # ""
    /\ item.quantity >= 1
    /\ item.color # ""

\* a write to the cart document id makes every open transaction that read it
\* conflict; a transaction that read "no documents" never conflicts
MarkStale(pr, writer, id) ==
    [q \in Procs |->
        IF q # writer /\ pr[q].pc = "commit" /\ pr[q].found /\ pr[q].cart.id = id
            THEN [pr[q] EXCEPT !.stale = TRUE]
            ELSE pr[q]]

\* the transaction callback's read: FindOne(sessCtx, {"user_id": userID})
TxnRead(r) ==
    LET i == FindOne(carts, r.user)
    IN [r EXCEPT !.found = (i # 0), !.cart = IF i = 0 THEN NoCart ELSE carts[i],
                 !.stale = FALSE]

\* outcome of a transaction callback: what it returns and what it writes
Outcome(res, branch, kind, items, total) ==
    [res |-> res, branch |-> branch, kind |-> kind, items |-> items, total |-> total]

Abort(res) == Outcome(res, "", "none", <<>>, 0)

\* the callback runs up to its write; an error return aborts the transaction
TxnStep(r, o) ==
    IF o.res = "ok"
        THEN [TxnRead(r) EXCEPT !.pc = "commit"]
        ELSE Rejected(r, o.res)

\* one run of the callback of request p, o its outcome on what it read
Txn(p, o) ==
    /\ proc[p].pc = "txn"
    /\ proc' = [proc EXCEPT ![p] = TxnStep(proc[p], o)]
    /\ UNCHANGED <<carts, products, ncalls>>

\* the committed write of a callback that returned nil
Apply(coll, r, o) ==
    LET i == IndexOfID(coll, r.cart.id)
    IN CASE o.kind = "insert" ->
                Append(coll, [id |-> NewCartID, user_id |-> r.user,
                              items |-> o.items, total_amount |-> o.total])
         [] o.kind = "update" ->
                [coll EXCEPT ![i].items = o.items, ![i].total_amount = o.total]
         [] o.kind = "delete" -> RemoveAt(coll, i)
         [] OTHER -> coll

\* session.WithTransaction: commit the callback's write, or run the callback
\* again when the document it read was written meanwhile
Commit(p, o) ==
    /\ proc[p].pc = "commit"
    /\ IF proc[p].stale
          THEN /\ proc' = [proc EXCEPT ![p].pc = "txn", ![p].stale = FALSE,
                                       ![p].found = FALSE, ![p].cart = NoCart]
               /\ UNCHANGED carts
          ELSE /\ carts' = Apply(carts, proc[p], o)
               /\ proc' = [MarkStale(proc, p, proc[p].cart.id)
                              EXCEPT ![p] = Done(proc[p], "ok", o.branch, NoCart)]
    /\ UNCHANGED <<products, ncalls>>

\* mutant: the stock check off by one
NotEnoughStock_OffByOne(quantity, product) == quantity > product.stock + 1

\* --------------------------------------------------------------- AddToCart
\* quantity > product.Stock
NotEnoughStock(quantity, product) == quantity > product.stock

\* the item as priced from the product
PricedItem(item, product) ==
    [item EXCEPT !.price = EffectivePrice(product),
                 !.totalprice = LineTotal(EffectivePrice(product), item.quantity)]

\* if item.ID.IsZero() { item.ID = primitive.NewObjectID() }
WithItemID(item) == [item EXCEPT !.id = IF item.id = ZeroID THEN NewItemID ELSE @]

\* AddToCart up to session.StartSession: validation, product lookup, stock
\* check, pricing, item id
AddToCartStart(r) ==
    IF ~ValidItem(r.item) THEN Rejected(r, "ValidationError")
    ELSE IF r.item.productid \notin DOMAIN products THEN Rejected(r, "ProductNotFound")
    ELSE IF r.item.quantity <= 0 THEN Rejected(r, "ValidationError")
    ELSE IF NotEnoughStock(r.item.quantity, products[r.item.productid])
        THEN Rejected(r, "StockExceeded")
    ELSE [r EXCEPT !.pc = "txn", !.product = products[r.item.productid],
                   !.item = WithItemID(PricedItem(r.item, products[r.item.productid]))]

AddToCart(p) ==
    \E u \in Users : \E item \in ItemsOf(u) :
        Call(p, AddToCartStart([Idle EXCEPT !.op = "AddToCart", !.user = u, !.item = item]))

\* mutant: the merged line takes the identity of the request's item
MergeLine_TakesRequestID(cartItem, item) ==
    [cartItem EXCEPT !.id = item.id,
                     !.quantity = cartItem.quantity + item.quantity,
                     !.totalprice = LineTotal(cartItem.price, cartItem.quantity + item.quantity)]

\* the matching line takes the request's quantity and a new total at its own price
MergeLine(cartItem, item) ==
    [cartItem EXCEPT !.quantity = cartItem.quantity + item.quantity,
                     !.totalprice = LineTotal(cartItem.price, cartItem.quantity + item.quantity)]

\* the items AddToCart writes to an existing cart
AddedItems(items, item) ==
    IF FirstMatch(items, item) # 0
        THEN [items EXCEPT ![FirstMatch(items, item)] = MergeLine(@, item)]
        ELSE Append(items, item)

\* the transaction callback of AddToCart
AddToCartBody(r) ==
    IF ~r.found
        THEN Outcome("ok", "created", "insert", <<r.item>>, r.item.totalprice)
        ELSE Outcome("ok", IF FirstMatch(r.cart.items, r.item) # 0 THEN "merged" ELSE "appended",
                     "update", AddedItems(r.cart.items, r.item),
                     CartTotal(AddedItems(r.cart.items, r.item)))

AddToCartTxn(p) == proc[p].op = "AddToCart" /\ Txn(p, AddToCartBody(TxnRead(proc[p])))

\* mutant: the committed add takes the quantity out of the product's stock
AddToCartCommit_ReservesStock(p) ==
    /\ proc[p].op = "AddToCart" /\ proc[p].pc = "commit" /\ ~proc[p].stale
    /\ carts' = Apply(carts, proc[p], AddToCartBody(proc[p]))
    /\ proc' = [MarkStale(proc, p, proc[p].cart.id)
                   EXCEPT ![p] = Done(proc[p], "ok", AddToCartBody(proc[p]).branch, NoCart)]
    /\ products' = [products EXCEPT ![proc[p].item.productid].stock =
                                        @ - proc[p].item.quantity]
    /\ UNCHANGED ncalls

AddToCartCommit(p) == proc[p].op = "AddToCart" /\ Commit(p, AddToCartBody(proc[p]))

\* ---------------------------------------------------------- UpdateCartItem
\* UpdateCartItem up to session.StartSession: validation and product lookup
UpdateCartItemStart(r) ==
    IF ~ValidItem(r.item) THEN Rejected(r, "ValidationError")
    ELSE IF r.item.productid \notin DOMAIN products THEN Rejected(r, "ProductNotFound")
    ELSE [r EXCEPT !.pc = "txn", !.product = products[r.item.productid]]

UpdateCartItem(p) ==
    \E u \in Users : \E item \in ItemsOf(u), actions \in ReqActions :
        Call(p, UpdateCartItemStart([Idle EXCEPT !.op = "UpdateCartItem", !.user = u,
                                                 !.item = item, !.actions = actions]))

\* the quantity of the matching line after the action
ActedQuantity(cartItem, item, actions) ==
    IF actions.Increment THEN cartItem.quantity + 1
    ELSE IF actions.Decrement THEN cartItem.quantity - 1
    ELSE item.quantity

\* mutant: only a negative quantity takes the line out
DropsLine_Negative(cartItem, item, actions) ==
    /\ ~actions.Increment
    /\ actions.Decrement
    /\ ActedQuantity(cartItem, item, actions) < 0

\* the decremented line leaves the cart
DropsLine(cartItem, item, actions) ==
    /\ ~actions.Increment
    /\ actions.Decrement
    /\ ActedQuantity(cartItem, item, actions) <= 0

\* mutant: the created line takes the quantity of the request
InitialQuantity_Supplied(item, actions) == item.quantity

\* mutant: every created cart starts at quantity 1
InitialQuantity_AlwaysOne(item, actions) == 1

\* the quantity of the line a cart is created with
InitialQuantity(item, actions) == IF actions.Increment THEN 1 ELSE item.quantity

\* mutant: the decremented line is zeroed, not removed
UpdatedItems_ZeroedLine(items, i, item, actions) ==
    [items EXCEPT ![i].quantity = ActedQuantity(items[i], item, actions),
                  ![i].totalprice =
                      LineTotal(items[i].price, ActedQuantity(items[i], item, actions))]

\* the items UpdateCartItem writes when the cart has a matching line at i
UpdatedItems(items, i, item, actions) ==
    IF DropsLine(items[i], item, actions)
        THEN RemoveAt(items, i)
        ELSE [items EXCEPT ![i].quantity = ActedQuantity(items[i], item, actions),
                           ![i].totalprice =
                               LineTotal(items[i].price, ActedQuantity(items[i], item, actions))]

\* mutant: a missing line is appended for every action
NoMatchOutcome_AnyAction(r) ==
    LET items == Append(r.cart.items,
                        PricedItem([r.item EXCEPT !.quantity = 1], r.product))
    IN Outcome("ok", "appended", "update", items, CartTotal(items))

\* what the callback does when no line matches
NoMatchOutcome(r) ==
    IF r.actions.Increment
        THEN LET items == Append(r.cart.items,
                                 PricedItem([r.item EXCEPT !.quantity = 1], r.product))
             IN Outcome("ok", "appended", "update", items, CartTotal(items))
        ELSE Abort("ItemNotFound")

\* what the callback does when FindOne returns ErrNoDocuments
NoCartOutcome(r) ==
    LET item == PricedItem([r.item EXCEPT !.quantity = InitialQuantity(r.item, r.actions)],
                           r.product)
    IN Outcome("ok", "created", "insert", <<item>>, item.totalprice)

\* mutant: the stock is checked for Increment only
UpdateCartItemBody_StockOnIncrement(r) ==
    IF ~r.found THEN NoCartOutcome(r)
    ELSE LET i == FirstMatch(r.cart.items, r.item)
         IN IF i = 0 THEN NoMatchOutcome(r)
            ELSE IF DropsLine(r.cart.items[i], r.item, r.actions)
                THEN LET items == UpdatedItems(r.cart.items, i, r.item, r.actions)
                     IN Outcome("ok", "dropped", "update", items, CartTotal(items))
            ELSE IF r.actions.Increment
                    /\ NotEnoughStock(ActedQuantity(r.cart.items[i], r.item, r.actions), r.product)
                THEN Abort("StockExceeded")
            ELSE LET items == UpdatedItems(r.cart.items, i, r.item, r.actions)
                 IN Outcome("ok", "changed", "update", items, CartTotal(items))

\* the transaction callback of UpdateCartItem
UpdateCartItemBody(r) ==
    IF ~r.found THEN NoCartOutcome(r)
    ELSE LET i == FirstMatch(r.cart.items, r.item)
         IN IF i = 0 THEN NoMatchOutcome(r)
            ELSE IF DropsLine(r.cart.items[i], r.item, r.actions)
                THEN LET items == UpdatedItems(r.cart.items, i, r.item, r.actions)
                     IN Outcome("ok", "dropped", "update", items, CartTotal(items))
            ELSE IF NotEnoughStock(ActedQuantity(r.cart.items[i], r.item, r.actions), r.product)
                THEN Abort("StockExceeded")
            ELSE LET items == UpdatedItems(r.cart.items, i, r.item, r.actions)
                 IN Outcome("ok", "changed", "update", items, CartTotal(items))

UpdateCartItemTxn(p) == proc[p].op = "UpdateCartItem" /\ Txn(p, UpdateCartItemBody(TxnRead(proc[p])))

UpdateCartItemCommit(p) ==
    proc[p].op = "UpdateCartItem" /\ Commit(p, UpdateCartItemBody(proc[p]))

\* mutant: the emptied cart is written back
RemoveWrite_AlwaysUpdate(items) == "update"

\* ---------------------------------------------------------- RemoveCartItem
\* the write RemoveCartItem chooses for the remaining items
RemoveWrite(items) == IF Len(items) = 0 THEN "delete" ELSE "update"

\* mutant: a line that is not there counts as removed
RemoveCartItemBody_IgnoresMissing(r) ==
    IF ~r.found THEN Abort("CartNotFound")
    ELSE LET foundIndex == FirstByID(r.cart.items, r.cartItemID)
             items == IF foundIndex = 0 THEN r.cart.items
                                        ELSE RemoveAt(r.cart.items, foundIndex)
         IN Outcome("ok", IF Len(items) = 0 THEN "deleted" ELSE "kept",
                    RemoveWrite(items), items, CartTotal(items))

\* mutant: the total is not recalculated after the removal
RemoveCartItemBody_StaleTotal(r) ==
    IF ~r.found THEN Abort("CartNotFound")
    ELSE LET foundIndex == FirstByID(r.cart.items, r.cartItemID)
             items == RemoveAt(r.cart.items, foundIndex)
         IN IF foundIndex = 0 THEN Abort("ItemNotFound")
            ELSE Outcome("ok", IF Len(items) = 0 THEN "deleted" ELSE "kept",
                         RemoveWrite(items), items, r.cart.total_amount)

\* the transaction callback of RemoveCartItem
RemoveCartItemBody(r) ==
    IF ~r.found THEN Abort("CartNotFound")
    ELSE LET foundIndex == FirstByID(r.cart.items, r.cartItemID)
             items == RemoveAt(r.cart.items, foundIndex)
         IN IF foundIndex = 0 THEN Abort("ItemNotFound")
            ELSE Outcome("ok", IF Len(items) = 0 THEN "deleted" ELSE "kept",
                         RemoveWrite(items), items, CartTotal(items))

\* nothing precedes the transaction: the call runs the callback's read
RemoveCartItem(p) ==
    \E u \in Users, id \in {ZeroID} \cup CallerIDs \cup FreshIDs :
        LET r == [Idle EXCEPT !.pc = "txn", !.op = "RemoveCartItem", !.user = u,
                              !.cartItemID = id]
        IN Call(p, TxnStep(r, RemoveCartItemBody(TxnRead(r))))

\* the callback run again after a write conflict
RemoveCartItemTxn(p) == proc[p].op = "RemoveCartItem" /\ Txn(p, RemoveCartItemBody(TxnRead(proc[p])))

RemoveCartItemCommit(p) ==
    proc[p].op = "RemoveCartItem" /\ Commit(p, RemoveCartItemBody(proc[p]))

\* --------------------------------------------------------------- ClearCart
\* mutant: a missing cart is not an error
ClearCartFind_MissingIsFine(r) ==
    LET i == FindOne(carts, r.user)
    IN IF i = 0 THEN [r EXCEPT !.pc = "update"]
       ELSE IF carts[i].user_id # r.user THEN Rejected(r, "OwnerMismatch")
       ELSE [r EXCEPT !.pc = "update", !.found = TRUE, !.cart = carts[i]]

\* FindOne outside any transaction, then the owner check
ClearCartFind(r) ==
    LET i == FindOne(carts, r.user)
    IN IF i = 0 THEN Rejected(r, "CartNotFound")
       ELSE IF carts[i].user_id # r.user THEN Rejected(r, "OwnerMismatch")
       ELSE [r EXCEPT !.pc = "update", !.found = TRUE, !.cart = carts[i]]

ClearCart(p) ==
    \E u \in Users :
        Call(p, ClearCartFind([Idle EXCEPT !.op = "ClearCart", !.user = u]))

\* mutant: the items are emptied, the total is left
ClearedCart_KeepsTotal(cart) == [cart EXCEPT !.items = <<>>]

\* the document ClearCart's $set leaves
ClearedCart(cart) == [cart EXCEPT !.items = <<>>, !.total_amount = 0]

\* UpdateOne(ctx, filter, $set ...): the first document of the owner, if any;
\* a filter that matches nothing is no error
ClearCartUpdate(p) ==
    /\ proc[p].pc = "update" /\ proc[p].op = "ClearCart"
    /\ LET r == proc[p]
           i == FindOne(carts, r.user)
       IN /\ carts' = IF i = 0 THEN carts ELSE [carts EXCEPT ![i] = ClearedCart(@)]
          /\ proc' = [(IF i = 0 THEN proc ELSE MarkStale(proc, p, carts[i].id))
                         EXCEPT ![p] = Done(r, "ok", IF i = 0 THEN "missed" ELSE "cleared", NoCart)]
    /\ UNCHANGED <<products, ncalls>>

\* mutant: the cart found is returned without its lines
GetUserCartFind_DropsLines(r) ==
    LET i == FindOne(carts, r.user)
    IN IF i = 0 THEN [r EXCEPT !.pc = "insert"]
       ELSE IF carts[i].user_id # r.user THEN Rejected(r, "OwnerMismatch")
       ELSE Done(r, "ok", "found", [carts[i] EXCEPT !.items = <<>>])

\* err.Error() of what MongoClient.ClearCart returns
ClearCartErrorText(res) ==
    CASE res = "CartNotFound" -> "cart not found"
      [] res = "OwnerMismatch" -> "user ID does not match the cart's user ID"
      [] res = "StoreError" -> "failed to clear cart"
      [] OTHER -> ""

\* the status the ClearCart request handler answers with
ClearCartHandler(res) ==
    IF res = "ok" THEN 200
    ELSE IF ClearCartErrorText(res) = "no documents in result" THEN 404
    ELSE 500

\* ------------------------------------------------------------- GetUserCart
GetUserCartFind(r) ==
    LET i == FindOne(carts, r.user)
    IN IF i = 0 THEN [r EXCEPT !.pc = "insert"]
       ELSE IF carts[i].user_id # r.user THEN Rejected(r, "OwnerMismatch")
       ELSE Done(r, "ok", "found", carts[i])

GetUserCart(p) ==
    \E u \in Users :
        Call(p, GetUserCartFind([Idle EXCEPT !.op = "GetUserCart", !.user = u]))

\* the cart GetUserCart builds when none exists
NewCart(userID) ==
    [id |-> NewCartID, user_id |-> userID, items |-> <<>>, total_amount |-> 0]

\* mutant: the earlier revision, which returns the empty cart without InsertOne
GetUserCartInsert_ReturnsOnly(p) ==
    /\ proc[p].pc = "insert" /\ proc[p].op = "GetUserCart"
    /\ proc' = [proc EXCEPT ![p] = Done(proc[p], "ok", "created", NewCart(proc[p].user))]
    /\ UNCHANGED <<carts, products, ncalls>>

\* InsertOne(ctx, newCart) and the return of &newCart
GetUserCartInsert(p) ==
    /\ proc[p].pc = "insert" /\ proc[p].op = "GetUserCart"
    /\ carts' = Append(carts, NewCart(proc[p].user))
    /\ proc' = [proc EXCEPT ![p] = Done(proc[p], "ok", "created", NewCart(proc[p].user))]
    /\ UNCHANGED <<products, ncalls>>

\* ------------------------------------------------------------ store errors
\* A request that failed in the store returns only the wrapped error.
Failed(r, res) ==
    [Idle EXCEPT !.pc = "done", !.op = r.op, !.user = r.user, !.res = res]

\* mutant: the error comes back after the write went through
StoreFails_AfterWrite(p) ==
    /\ proc[p].pc = "update"
    /\ carts' = [i \in 1 .. Len(carts) |->
                    IF i = FindOne(carts, proc[p].user) THEN ClearedCart(carts[i])
                                                       ELSE carts[i]]
    /\ proc' = [proc EXCEPT ![p] = Failed(proc[p], "StoreError")]
    /\ UNCHANGED <<products, ncalls>>

\* the store or the transaction fails at the write or the commit: the
\* transaction is aborted, the single write outside a transaction is not made,
\* and the operation returns the wrapped error
StoreFails(p) ==
    /\ proc[p].pc \in {"commit", "update", "insert"}
    /\ proc' = [proc EXCEPT ![p] = Failed(proc[p], "StoreError")]
    /\ UNCHANGED <<carts, products, ncalls>>

\* ----------------------------------------------------------- UpdateProduct
\* UpdateOne on the product collection with the caller's $set
UpdateProduct ==
    /\ ncalls < MaxCalls
    /\ \E id \in DOMAIN products : \E doc \in ProductDocs(id) :
          /\ products[id] # doc
          /\ products' = [products EXCEPT ![id] = doc]
    /\ ncalls' = ncalls + 1
    /\ UNCHANGED <<carts, proc>>

\* ------------------------------------------------------------ pricing runs
\* Product prices in cents and discounts in percent of the pricing runs.
Prices == (1 .. MaxPrice) \cup {10000}
Discounts == 0 .. 100

\* One priced product, enough of it in stock for every addition asked.
PriceInit ==
    /\ carts = <<>>
    /\ \E price \in Prices, discount \in Discounts :
           products = [InitialProducts EXCEPT
                          !["p1"] = [price |-> price, discount |-> discount,
                                     stock |-> MaxPriceQty]]
    /\ proc = [p \in Procs |-> Idle]
    /\ ncalls = 0

\* AddToCart from call to return with no other request in flight
PriceAdd(quantity) ==
    LET r == AddToCartStart([Idle EXCEPT !.op = "AddToCart", !.user = "u1",
                                         !.item = ReqItem(<<"p1", "red", "">>, quantity, ZeroID)])
        o == AddToCartBody(TxnRead(r))
    IN /\ ncalls < MaxPriceCalls
       /\ r.pc = "txn"
       /\ o.res = "ok"
       /\ carts' = Apply(carts, TxnRead(r), o)
       /\ proc' = [proc EXCEPT !["a"] = Done(r, "ok", o.branch, NoCart)]
       /\ ncalls' = ncalls + 1
       /\ UNCHANGED products

PriceNext == \E quantity \in 1 .. MaxPriceQty : PriceAdd(quantity)

PriceSpec == PriceInit /\ [][PriceNext]_vars

\* ----------------------------------------------------------- specification
Next ==
    \/ \E p \in Procs : AddToCart(p)
    \/ \E p \in Procs : AddToCartTxn(p)
    \/ \E p \in Procs : AddToCartCommit(p)
    \/ \E p \in Procs : UpdateCartItem(p)
    \/ \E p \in Procs : UpdateCartItemTxn(p)
    \/ \E p \in Procs : UpdateCartItemCommit(p)
    \/ \E p \in Procs : RemoveCartItem(p)
    \/ \E p \in Procs : RemoveCartItemTxn(p)
    \/ \E p \in Procs : RemoveCartItemCommit(p)
    \/ \E p \in Procs : ClearCart(p)
    \/ \E p \in Procs : ClearCartUpdate(p)
    \/ \E p \in Procs : GetUserCart(p)
    \/ \E p \in Procs : GetUserCartInsert(p)
    \/ \E p \in Procs : StoreFails(p)
    \/ UpdateProduct

Spec == Init /\ [][Next]_vars

\* ================================================================== claims
\* Vocabulary of the properties, written without the engine's own operators.

\* the lines of items that are the variant of item
LinesOfVariant(items, item) ==
    {i \in 1 .. Len(items) :
        /\ items[i].productid = item.productid
        /\ items[i].color = item.color
        /\ items[i].model = item.model}

RECURSIVE SumOfLineTotals(_)
SumOfLineTotals(items) ==
    IF Len(items) = 0 THEN 0
    ELSE items[1].totalprice + SumOfLineTotals(SubSeq(items, 2, Len(items)))

\* the owner's cart as a reader finds it, NoCart when there is none
CartOf(coll, u) == IF FindOne(coll, u) = 0 THEN NoCart ELSE coll[FindOne(coll, u)]

HasCart(coll, u) == \E i \in 1 .. Len(coll) : coll[i].user_id = u

\* the document with the given id
DocWithID(coll, id) == coll[CHOOSE i \in 1 .. Len(coll) : coll[i].id = id]

HasDoc(coll, id) == \E i \in 1 .. Len(coll) : coll[i].id = id

\* the quantity stored for the variant of item in the owner's cart
StoredQuantity(coll, u, item) ==
    LET items == CartOf(coll, u).items
        L == LinesOfVariant(items, item)
    IN IF L = {} THEN 0 ELSE items[CHOOSE i \in L : \A j \in L : i <= j].quantity

\* request p commits its transaction in this step
Commits(p, op) ==
    /\ proc[p].op = op
    /\ proc[p].pc = "commit"
    /\ proc'[p].pc = "done"
    /\ proc'[p].res = "ok"

\* request p of kind op is received in this step (a call that repeats the last
\* call of its slot with the same outcome leaves the requests as they were and
\* is not told apart)
Called(p, op) ==
    /\ ncalls' = ncalls + 1
    /\ products' = products
    /\ proc[p].pc \in {"idle", "done"}
    /\ proc'[p].op = op
    /\ \A q \in Procs \ {p} : proc'[q] = proc[q]
    /\ proc'[p] # proc[p]

Finished(p, op, res) ==
    /\ proc[p].pc = "done"
    /\ proc[p].op = op
    /\ proc[p].res = res

\* C1: every stored cart's total amount is the rounded sum of the line totals
\* of its lines, 0 for a cart without lines.
C1_TotalIsSumOfLineTotals ==
    \A i \in 1 .. Len(carts) :
        carts[i].total_amount = Round(SumOfLineTotals(carts[i].items), 1)

\* a mutation has committed on a cart that holds two lines
C1_Witness ==
    \E p \in Procs, i \in 1 .. Len(carts) :
        /\ Finished(p, "UpdateCartItem", "ok")
        /\ proc[p].branch = "changed"
        /\ carts[i].user_id = proc[p].user
        /\ Len(carts[i].items) >= 2
        /\ carts[i].total_amount = carts[i].items[1].totalprice + carts[i].items[2].totalprice

\* request q is an AddToCart for the owner and variant of request p that is
\* running or has returned ok
OtherAddOfSameVariant(p, q) ==
    /\ q # p
    /\ proc[q].op = "AddToCart"
    /\ proc[q].user = proc[p].user
    /\ LinesOfVariant(<<proc[q].item>>, proc[p].item) # {}
    /\ \/ proc[q].pc \in {"txn", "commit"}
       \/ proc[q].pc = "done" /\ proc[q].res = "ok"

\* C2: no lost update between two AddToCart calls for the same owner and
\* variant.  When one of them returns ok, the quantity stored for the variant in
\* the owner's cart rises by the quantity it requested, so that with q1 and q2
\* the two end at the prior quantity plus q1 + q2, whether or not a cart
\* existed before.
C2_NoLostUpdate ==
    [][\A p \in Procs, q \in Procs :
          (Commits(p, "AddToCart") /\ OtherAddOfSameVariant(p, q)) =>
              StoredQuantity(carts', proc[p].user, proc[p].item)
                  = StoredQuantity(carts, proc[p].user, proc[p].item) + proc[p].item.quantity]_vars

\* C3: an AddToCart whose variant is already a line of the cart leaves the
\* cart with the same lines, exactly one of them for the variant, its quantity
\* raised by the requested one; otherwise the cart gains exactly one line for
\* the variant with the requested quantity.  Two successive calls with q1 and
\* q2 so leave one line of quantity q1 + q2.
C3_AddMergesSameVariant ==
    [][\A p \in Procs :
          Commits(p, "AddToCart") =>
              LET item == proc[p].item
                  old == proc[p].cart.items
                  new == IF proc[p].found THEN DocWithID(carts', proc[p].cart.id).items
                                          ELSE carts'[Len(carts')].items
                  was == LinesOfVariant(old, item)
                  now == LinesOfVariant(new, item)
              IN /\ Cardinality(now) = 1
                 /\ was # {} => /\ Len(new) = Len(old)
                                /\ \A i \in now : i \in was
                                                  /\ new[i].quantity = old[i].quantity + item.quantity
                 /\ was = {} => /\ Len(new) = Len(old) + 1
                                /\ \A i \in now : new[i].quantity = item.quantity]_vars

\* a second add of the variant was merged: one line, quantity above one
C3_Witness ==
    \E p \in Procs :
        /\ Finished(p, "AddToCart", "ok")
        /\ proc[p].branch = "merged"
        /\ ncalls = 2
        /\ Len(CartOf(carts, proc[p].user).items) = 1
        /\ CartOf(carts, proc[p].user).items[1].quantity >= 2

\* C4: an AddToCart that asks for more than the product's stock returns
\* StockExceeded and the cart collection is as before the call.
C4_StockExceededLeavesCart ==
    [][\A p \in Procs :
          ( /\ Called(p, "AddToCart")
            /\ proc'[p].item.productid \in DOMAIN products
            /\ proc'[p].item.color # ""
            /\ proc'[p].item.quantity > products[proc'[p].item.productid].stock )
          => /\ proc'[p].pc = "done"
             /\ proc'[p].res = "StockExceeded"
             /\ carts' = carts]_vars

\* an add beyond the stock was refused while the owner has a cart
C4_Witness ==
    \E p \in Procs :
        /\ Finished(p, "AddToCart", "StockExceeded")
        /\ proc[p].item.quantity > products[proc[p].item.productid].stock
        /\ HasCart(carts, proc[p].user)
        /\ Len(CartOf(carts, proc[p].user).items) > 0

\* C5: every line stored in a cart has quantity >= 1.
C5_QuantityAtLeastOne ==
    \A i \in 1 .. Len(carts) :
        \A j \in 1 .. Len(carts[i].items) : carts[i].items[j].quantity >= 1

\* a decrement took a line out of a cart that keeps another line
C5_Witness ==
    \E p \in Procs :
        /\ Finished(p, "UpdateCartItem", "ok")
        /\ proc[p].branch = "dropped"
        /\ Len(CartOf(carts, proc[p].user).items) = 1
        /\ CartOf(carts, proc[p].user).items[1].quantity >= 1

\* items without its i-th line
Without(items, i) ==
    [k \in 1 .. (Len(items) - 1) |-> IF k < i THEN items[k] ELSE items[k + 1]]

\* request p is an UpdateCartItem with Decrement whose callback found a
\* matching line of quantity 1, and it commits in this step
DecrementsLastUnit(p) ==
    /\ Commits(p, "UpdateCartItem")
    /\ proc[p].actions.Decrement /\ ~proc[p].actions.Increment
    /\ proc[p].found
    /\ \E i \in LinesOfVariant(proc[p].cart.items, proc[p].item) :
           proc[p].cart.items[i].quantity = 1

C7_RemoveLastDeletesCart ==
    [][\A p \in Procs :
          Commits(p, "RemoveCartItem") =>
              LET old == proc[p].cart.items
                  L == {k \in 1 .. Len(old) : old[k].id = proc[p].cartItemID}
                  i == CHOOSE k \in L : \A j \in L : k <= j
              IN IF Len(old) = 1
                    THEN /\ ~HasDoc(carts', proc[p].cart.id)
                         /\ Len(carts') = Len(carts) - 1
                    ELSE /\ HasDoc(carts', proc[p].cart.id)
                         /\ Len(carts') = Len(carts)
                         /\ DocWithID(carts', proc[p].cart.id).items = Without(old, i)]_vars

\* the last line was removed and the owner has no record
C7_Witness ==
    \E p \in Procs :
        /\ Finished(p, "RemoveCartItem", "ok")
        /\ proc[p].branch = "deleted"
        /\ ncalls = 2
        /\ ~HasCart(carts, proc[p].user)

\* C8: ClearCart's write leaves the owner's cart record in the store with
\* zero lines and total 0, whether it had lines or not, and never removes a
\* record.
C8_ClearKeepsEmptyRecord ==
    [][\A p \in Procs :
          (proc[p].op = "ClearCart" /\ proc[p].pc = "update" /\ proc'[p].pc = "done") =>
              /\ Len(carts') = Len(carts)
              /\ (HasCart(carts, proc[p].user) /\ proc'[p].res = "ok") =>
                    /\ CartOf(carts', proc[p].user).id = CartOf(carts, proc[p].user).id
                    /\ CartOf(carts', proc[p].user).items = <<>>
                    /\ CartOf(carts', proc[p].user).total_amount = 0]_vars

\* a cart that had a line was cleared and is still there, empty
C8_Witness ==
    \E p \in Procs :
        /\ Finished(p, "ClearCart", "ok")
        /\ proc[p].branch = "cleared"
        /\ ncalls = 2
        /\ HasCart(carts, proc[p].user)
        /\ CartOf(carts, proc[p].user).items = <<>>
        /\ CartOf(carts, proc[p].user).total_amount = 0

\* C9: GetUserCart for an owner without a cart record returns no error but
\* an empty cart of that owner (zero lines, total 0), and that cart is in the
\* store when it returns.
C9_GetCreatesEmptyCart ==
    [][\A p \in Procs :
          /\ (Called(p, "GetUserCart") /\ ~HasCart(carts, proc'[p].user)) =>
                 proc'[p].pc = "insert"
          /\ (proc[p].op = "GetUserCart" /\ proc[p].pc = "insert" /\ proc'[p].pc = "done"
                                           /\ proc'[p].res = "ok") =>
                 /\ proc'[p].ret.user_id = proc[p].user
                 /\ proc'[p].ret.items = <<>>
                 /\ proc'[p].ret.total_amount = 0
                 /\ HasDoc(carts', proc'[p].ret.id)
                 /\ DocWithID(carts', proc'[p].ret.id) = proc'[p].ret]_vars

\* the first request ever was a GetUserCart and its empty cart is stored
C9_Witness ==
    \E p \in Procs :
        /\ Finished(p, "GetUserCart", "ok")
        /\ proc[p].branch = "created"
        /\ ncalls = 1
        /\ proc[p].ret.items = <<>>
        /\ CartOf(carts, proc[p].user) = proc[p].ret

\* request p is an UpdateCartItem with Decrement or SetQuantity
NotIncrement(p) == proc[p].op = "UpdateCartItem" /\ ~proc[p].actions.Increment

\* the callback of request p runs in this step
RunsCallback(p) == proc[p].pc = "txn" /\ proc'[p].pc # "txn"

\* C10 as claimed: UpdateCartItem with Decrement or SetQuantity for an owner
\* without a cart record fails with ItemNotFound and creates no record.
C10_UpdateWithoutCartFails ==
    [][\A p \in Procs :
          NotIncrement(p) =>
              /\ (RunsCallback(p) /\ ~HasCart(carts, proc[p].user)) =>
                     (proc'[p].pc = "done" /\ proc'[p].res = "ItemNotFound")
              /\ (Commits(p, "UpdateCartItem") /\ ~proc[p].found) => carts' = carts]_vars

\* C10 as amended: UpdateCartItem with Decrement or SetQuantity for an owner
\* without a cart record returns ok and inserts a cart record of that owner
\* with exactly one line, of the requested variant and with the quantity the
\* caller supplied.
C10_UpdateWithoutCartCreates ==
    [][\A p \in Procs :
          NotIncrement(p) =>
              /\ (RunsCallback(p) /\ ~HasCart(carts, proc[p].user)) =>
                     (proc'[p].pc = "commit" /\ ~proc'[p].found)
              /\ (Commits(p, "UpdateCartItem") /\ ~proc[p].found) =>
                     /\ proc'[p].res = "ok"
                     /\ Len(carts') = Len(carts) + 1
                     /\ SubSeq(carts', 1, Len(carts)) = carts
                     /\ carts'[Len(carts')].user_id = proc[p].user
                     /\ Len(carts'[Len(carts')].items) = 1
                     /\ LinesOfVariant(carts'[Len(carts')].items, proc[p].item) = {1}
                     /\ carts'[Len(carts')].items[1].quantity = proc[p].item.quantity]_vars

\* the first request ever was an UpdateCartItem that made a cart whose line
\* has a quantity only SetQuantity or Decrement can give it
C10_Witness ==
    \E p \in Procs :
        /\ Finished(p, "UpdateCartItem", "ok")
        /\ proc[p].branch = "created"
        /\ ncalls = 1
        /\ Len(CartOf(carts, proc[p].user).items) = 1
        /\ CartOf(carts, proc[p].user).items[1].quantity = 2

\* effectiveUnitPrice of the specification, in cents: the price when there is
\* no discount, else price x (1 - discount/100) rounded to the nearest cent
EffectiveUnitPrice(price, discount) ==
    IF discount > 0 THEN (2 * price * (100 - discount) + 100) \div 200 ELSE price

\* the line total of the specification: unit price x quantity, in cents
LineTotalOf(unitPrice, quantity) == unitPrice * quantity

\* C11: UpdateCartItem with Increment for an owner without a cart record
\* creates a cart with exactly one line of the requested variant, of quantity 1
\* whatever quantity was supplied, priced at the effective unit price of the
\* product the call read, with the cart total equal to that line's total.
C11_IncrementWithoutCartCreates ==
    [][\A p \in Procs :
          (Commits(p, "UpdateCartItem") /\ proc[p].actions.Increment /\ ~proc[p].found) =>
              LET unit == EffectiveUnitPrice(proc[p].product.price, proc[p].product.discount)
                  new == carts'[Len(carts')]
              IN /\ Len(carts') = Len(carts) + 1
                 /\ SubSeq(carts', 1, Len(carts)) = carts
                 /\ new.user_id = proc[p].user
                 /\ Len(new.items) = 1
                 /\ LinesOfVariant(new.items, proc[p].item) = {1}
                 /\ new.items[1].quantity = 1
                 /\ new.items[1].price = unit
                 /\ new.items[1].totalprice = LineTotalOf(unit, 1)
                 /\ new.total_amount = new.items[1].totalprice]_vars

\* the first request ever asked for quantity 2 of the discounted product and
\* made a cart whose line has quantity 1
C11_Witness ==
    \E p \in Procs :
        /\ Finished(p, "UpdateCartItem", "ok")
        /\ proc[p].branch = "created"
        /\ ncalls = 1
        /\ proc[p].item.quantity = 2
        /\ Len(CartOf(carts, proc[p].user).items) = 1
        /\ CartOf(carts, proc[p].user).items[1].quantity = 1
        /\ CartOf(carts, proc[p].user).items[1].price = 896
        /\ CartOf(carts, proc[p].user).total_amount = 896

\* the quantity the specification gives the matching line for the action
ResultingQuantity(line, item, actions) ==
    CASE actions.Increment -> line.quantity + 1
      [] actions.Decrement -> line.quantity - 1
      [] OTHER -> item.quantity

\* the first line of items that is of item's variant
FirstOfVariant(items, item) ==
    items[CHOOSE k \in LinesOfVariant(items, item) :
              \A j \in LinesOfVariant(items, item) : k <= j]

\* the callback of UpdateCartItem request p runs in this step and reads a cart
\* that has a line of the requested variant
UpdatesMatchingLine(p) ==
    /\ proc[p].op = "UpdateCartItem"
    /\ RunsCallback(p)
    /\ HasCart(carts, proc[p].user)
    /\ LinesOfVariant(CartOf(carts, proc[p].user).items, proc[p].item) # {}

\* C12: UpdateCartItem on a matching line, whatever the action, aborts with
\* StockExceeded when the line's resulting quantity is at least 1 and exceeds
\* the stock of the product the call read, and the store is left as it was.
C12_UpdateStockExceeded ==
    [][\A p \in Procs :
          UpdatesMatchingLine(p) =>
              LET line == FirstOfVariant(CartOf(carts, proc[p].user).items, proc[p].item)
                  new == ResultingQuantity(line, proc[p].item, proc[p].actions)
              IN (new >= 1 /\ new > proc[p].product.stock) =>
                     /\ proc'[p].pc = "done"
                     /\ proc'[p].res = "StockExceeded"
                     /\ carts' = carts]_vars

\* a Decrement of a line of quantity 2 was refused for a product out of stock,
\* and the line is still there with quantity 2
C12_Witness ==
    \E p \in Procs :
        /\ Finished(p, "UpdateCartItem", "StockExceeded")
        /\ proc[p].actions.Decrement
        /\ products[proc[p].item.productid].stock = 0
        /\ HasCart(carts, proc[p].user)
        /\ LinesOfVariant(CartOf(carts, proc[p].user).items, proc[p].item) # {}
        /\ FirstOfVariant(CartOf(carts, proc[p].user).items, proc[p].item).quantity = 2

\* C13: UpdateCartItem on a cart without a line of the requested variant: with
\* Increment it appends exactly one line of quantity 1, priced from the product
\* the call read, and leaves the other lines as they were; with Decrement or
\* SetQuantity it fails with ItemNotFound and leaves the store as it was.
C13_UpdateWithoutMatchingLine ==
    [][\A p \in Procs :
          /\ (/\ proc[p].op = "UpdateCartItem" /\ RunsCallback(p)
              /\ HasCart(carts, proc[p].user)
              /\ LinesOfVariant(CartOf(carts, proc[p].user).items, proc[p].item) = {}) =>
                 IF proc[p].actions.Increment
                     THEN proc'[p].pc = "commit"
                     ELSE /\ proc'[p].pc = "done"
                          /\ proc'[p].res = "ItemNotFound"
                          /\ carts' = carts
          /\ (/\ Commits(p, "UpdateCartItem") /\ proc[p].found
              /\ LinesOfVariant(proc[p].cart.items, proc[p].item) = {}) =>
                 LET old == proc[p].cart.items
                     unit == EffectiveUnitPrice(proc[p].product.price, proc[p].product.discount)
                     now == DocWithID(carts', proc[p].cart.id).items
                 IN /\ proc[p].actions.Increment
                    /\ Len(carts') = Len(carts)
                    /\ HasDoc(carts', proc[p].cart.id)
                    /\ Len(now) = Len(old) + 1
                    /\ SubSeq(now, 1, Len(old)) = old
                    /\ LinesOfVariant(now, proc[p].item) = {Len(now)}
                    /\ now[Len(now)].quantity = 1
                    /\ now[Len(now)].price = unit
                    /\ now[Len(now)].totalprice = LineTotalOf(unit, 1)]_vars

\* an Increment that asked for quantity 2 of a variant the cart did not hold
\* has added a second line of quantity 1
C13_Witness ==
    \E p \in Procs :
        /\ Finished(p, "UpdateCartItem", "ok")
        /\ proc[p].branch = "appended"
        /\ proc[p].item.quantity = 2
        /\ Len(CartOf(carts, proc[p].user).items) = 2
        /\ LinesOfVariant(CartOf(carts, proc[p].user).items, proc[p].item) = {2}
        /\ CartOf(carts, proc[p].user).items[2].quantity = 1

\* the callback of RemoveCartItem request p runs in this step, at the call or
\* again after a write conflict
RemoveRuns(p) ==
    \/ Called(p, "RemoveCartItem")
    \/ proc[p].op = "RemoveCartItem" /\ RunsCallback(p)

\* the indexes of the lines of items whose identity is id
LinesWithID(items, id) == {k \in 1 .. Len(items) : items[k].id = id}

\* C14: RemoveCartItem fails with CartNotFound when the owner has no cart
\* record, and with ItemNotFound when the cart has no line of the given
\* identity; in both cases the store is left as it was.
C14_RemoveErrors ==
    [][\A p \in Procs :
          RemoveRuns(p) =>
              IF ~HasCart(carts, proc'[p].user)
                  THEN /\ proc'[p].pc = "done"
                       /\ proc'[p].res = "CartNotFound"
                       /\ carts' = carts
              ELSE IF LinesWithID(CartOf(carts, proc'[p].user).items, proc'[p].cartItemID) = {}
                  THEN /\ proc'[p].pc = "done"
                       /\ proc'[p].res = "ItemNotFound"
                       /\ carts' = carts
              ELSE proc'[p].pc = "commit"]_vars

\* a removal was refused because the cart, which has a line, has none of the
\* identity asked for
C14_Witness ==
    \E p \in Procs :
        /\ Finished(p, "RemoveCartItem", "ItemNotFound")
        /\ HasCart(carts, proc[p].user)
        /\ CartOf(carts, proc[p].user).items # <<>>
        /\ LinesWithID(CartOf(carts, proc[p].user).items, proc[p].cartItemID) = {}

\* C15: ClearCart for an owner without a cart record fails with CartNotFound,
\* and no step of ClearCart adds a record to the store.
C15_ClearWithoutCart ==
    [][\A p \in Procs :
          /\ (Called(p, "ClearCart") /\ ~HasCart(carts, proc'[p].user)) =>
                 /\ proc'[p].pc = "done"
                 /\ proc'[p].res = "CartNotFound"
                 /\ carts' = carts
          /\ (proc[p].op = "ClearCart" /\ proc[p].pc = "update" /\ proc'[p].pc = "done") =>
                 /\ Len(carts') = Len(carts)
                 /\ ~HasCart(carts, proc[p].user) => carts' = carts]_vars

\* a ClearCart was refused and the owner still has no record
C15_Witness ==
    \E p \in Procs :
        /\ Finished(p, "ClearCart", "CartNotFound")
        /\ ~HasCart(carts, proc[p].user)

\* the product values request p relies on are those the store holds now
ReliesOnCurrentProduct(p) ==
    LET product == products[proc[p].item.productid]
    IN IF proc[p].op = "AddToCart"
          THEN /\ proc[p].item.price = EffectiveUnitPrice(product.price, product.discount)
               /\ proc[p].item.quantity <= product.stock
          ELSE proc[p].product = product

\* C16: when the callback of an AddToCart or UpdateCartItem reads the cart and
\* goes on to write it, the price and the stock the operation relies on are
\* those of the product as stored at that moment, not values replaced before
\* the cart was read.
C16_ProductReadWithCart ==
    [][\A p \in Procs :
          (/\ proc[p].op \in {"AddToCart", "UpdateCartItem"}
           /\ RunsCallback(p)
           /\ proc'[p].pc = "commit") => ReliesOnCurrentProduct(p)]_vars

\* the cart record an AddToCart of request p has written in this step
WrittenCart(p) ==
    IF proc[p].found THEN DocWithID(carts', proc[p].cart.id) ELSE carts'[Len(carts')]

\* C17: after a successful AddToCart the affected line's unit price is the
\* effective unit price the call computed from the product it read, whatever
\* price the caller sent, and its line total is that unit price x the line's
\* quantity, for an appended line and for a line the request was merged into.
C17_AddPricesFromProduct ==
    [][\A p \in Procs :
          Commits(p, "AddToCart") =>
              LET line == FirstOfVariant(WrittenCart(p).items, proc[p].item)
              IN /\ line.price = proc[p].item.price
                 /\ line.totalprice = LineTotalOf(proc[p].item.price, line.quantity)]_vars

\* C18: in the pricing runs every line's unit price is the product price when
\* the discount is 0 and price x (1 - discount/100) rounded to the cent
\* otherwise, every line total is unit price x quantity, and the cart total is
\* the line total; so price 100.00 at discount 10 gives 90.00, 270.00 for 3
\* units and 450.00 for 5.
C18_EffectiveUnitPrice ==
    \A i \in 1 .. Len(carts) : \A k \in 1 .. Len(carts[i].items) :
        LET line == carts[i].items[k]
            product == products[line.productid]
        IN /\ line.price = EffectiveUnitPrice(product.price, product.discount)
           /\ line.totalprice = LineTotalOf(line.price, line.quantity)
           /\ Len(carts[i].items) = 1 => carts[i].total_amount = line.totalprice

\* the operations that change a cart
Mutations == {"AddToCart", "UpdateCartItem", "RemoveCartItem", "ClearCart"}

\* request p returns in this step
Returns(p) == proc'[p] # proc[p] /\ proc'[p].pc = "done"

\* C19: a step in which AddToCart, UpdateCartItem, RemoveCartItem or ClearCart
\* returns an error of any kind leaves the store as it was, and the store only
\* ever changes in a step in which a request returns without error: a request
\* that fails has written nothing.
C19_ErrorsWriteNothing ==
    [][/\ \A p \in Procs :
             (Returns(p) /\ proc'[p].op \in Mutations /\ proc'[p].res # "ok") =>
                 carts' = carts
       /\ carts' # carts => \E p \in Procs : Returns(p) /\ proc'[p].res = "ok"]_vars

\* an UpdateCartItem failed in the store after its callback had run, and the
\* owner's cart still has its line
C19_Witness ==
    \E p \in Procs :
        /\ Finished(p, "UpdateCartItem", "StoreError")
        /\ HasCart(carts, proc[p].user)
        /\ CartOf(carts, proc[p].user).items # <<>>

\* C20: the store holds at most one cart record per owner.
C20_OneCartPerOwner ==
    \A u \in Users : Cardinality({i \in 1 .. Len(carts) : carts[i].user_id = u}) <= 1

\* the cart records of owner u, in store order
RECURSIVE RecordsOf(_, _)
RecordsOf(coll, u) ==
    IF coll = <<>> THEN <<>>
    ELSE IF Head(coll).user_id = u THEN <<Head(coll)>> \o RecordsOf(Tail(coll), u)
    ELSE RecordsOf(Tail(coll), u)

\* C21: the cart records of an owner change only in a step of a request of
\* that owner; a request of another owner leaves them as they were.
C21_OtherOwnersUntouched ==
    [][\A u \in Users :
          RecordsOf(carts', u) # RecordsOf(carts, u) =>
              \E p \in Procs : proc[p].user = u /\ proc'[p] # proc[p] /\ proc[p].pc # "done"]_vars

\* both owners have a cart with a line, and the last request to finish was
\* one of u1 that changed u1's cart
C21_Witness ==
    /\ HasCart(carts, "u2") /\ CartOf(carts, "u2").items # <<>>
    /\ HasCart(carts, "u1") /\ CartOf(carts, "u1").items # <<>>
    /\ ncalls = 3
    /\ \E p \in Procs : proc[p].pc = "done" /\ proc[p].user = "u1" /\ proc[p].res = "ok"
                        /\ proc[p].branch \in {"merged", "appended", "changed"}

\* C22: no step of a cart operation changes a product record: the products
\* change only in a step that leaves every request and every cart as it was (an
\* update of the product itself), so a successful add or increment leaves the
\* stock as it was.
C22_ProductsUntouched ==
    [][products' # products => (proc' = proc /\ carts' = carts)]_vars

\* an add of 2 units has committed and the stock of the product, 3 at the
\* start, is 3
C22_Witness ==
    \E p \in Procs :
        /\ Finished(p, "AddToCart", "ok")
        /\ proc[p].item.quantity = 2
        /\ products = InitialProducts
        /\ products[proc[p].item.productid].stock = 3
        /\ StoredQuantity(carts, proc[p].user, proc[p].item) >= 2

C24_ClearIsAtomic ==
    [][\A p \in Procs :
          (proc[p].op = "ClearCart" /\ proc[p].pc = "update" /\ proc'[p].pc = "done") =>
              IF HasCart(carts, proc[p].user)
                  THEN proc'[p].res = "ok" =>
                           /\ HasCart(carts', proc[p].user)
                           /\ CartOf(carts', proc[p].user).items = <<>>
                           /\ CartOf(carts', proc[p].user).total_amount = 0
                  ELSE proc'[p].res # "ok"]_vars

\* C25: an AddToCart merged into a line, and an UpdateCartItem that changes a
\* line and keeps it, leave that line and every other line of the cart with the
\* identity it had, whatever identity the request carries.
C25_LineIdentityStable ==
    [][\A p \in Procs :
          (/\ Commits(p, "AddToCart") \/ Commits(p, "UpdateCartItem")
           /\ proc[p].found
           /\ LinesOfVariant(proc[p].cart.items, proc[p].item) # {}) =>
              LET old == proc[p].cart.items
                  now == DocWithID(carts', proc[p].cart.id).items
              IN /\ HasDoc(carts', proc[p].cart.id)
                 /\ Len(now) >= Len(old) =>
                        \A k \in 1 .. Len(old) : now[k].id = old[k].id]_vars

\* an add was merged into a line whose identity is not the one the request
\* carried
C25_Witness ==
    \E p \in Procs :
        /\ Finished(p, "AddToCart", "ok")
        /\ proc[p].branch = "merged"
        /\ LinesOfVariant(CartOf(carts, proc[p].user).items, proc[p].item) # {}
        /\ FirstOfVariant(CartOf(carts, proc[p].user).items, proc[p].item).id # proc[p].item.id
        /\ FirstOfVariant(CartOf(carts, proc[p].user).items, proc[p].item).id # ZeroID

\* C26: GetUserCart for an owner that has a cart record returns that record,
\* its lines and its total, and leaves the store as it was; whenever
\* GetUserCart returns a cart, the cart's owner is the owner asked for.
C26_GetReturnsStoredCart ==
    [][\A p \in Procs :
          /\ (Called(p, "GetUserCart") /\ HasCart(carts, proc'[p].user)) =>
                 /\ proc'[p].pc = "done"
                 /\ proc'[p].res = "ok"
                 /\ proc'[p].ret = CartOf(carts, proc'[p].user)
                 /\ carts' = carts
          /\ (Returns(p) /\ proc'[p].op = "GetUserCart" /\ proc'[p].res = "ok") =>
                 proc'[p].ret.user_id = proc'[p].user]_vars

\* GetUserCart has returned the owner's stored cart, which has a line
C26_Witness ==
    \E p \in Procs :
        /\ Finished(p, "GetUserCart", "ok")
        /\ proc[p].branch = "found"
        /\ proc[p].ret.items # <<>>
        /\ proc[p].ret.total_amount > 0
        /\ proc[p].ret = CartOf(carts, proc[p].user)

\* C27: no cart record has two lines of the same (product, color, model).
C27_OneLinePerVariant ==
    \A i \in 1 .. Len(carts) :
        \A j, k \in 1 .. Len(carts[i].items) :
            (/\ carts[i].items[j].productid = carts[i].items[k].productid
             /\ carts[i].items[j].color = carts[i].items[k].color
             /\ carts[i].items[j].model = carts[i].items[k].model) => j = k

\* after three requests a cart holds two lines of one product and color that
\* differ in the model
C27_Witness ==
    \E i \in 1 .. Len(carts) :
        /\ Len(carts[i].items) = 2
        /\ carts[i].items[1].productid = carts[i].items[2].productid
        /\ carts[i].items[1].color = carts[i].items[2].color
        /\ carts[i].items[1].model # carts[i].items[2].model
        /\ ncalls = 3

\* C28: after a successful AddToCart or UpdateCartItem the quantity of the
\* line that was created or changed is at most the stock of the product as the
\* operation read it.
C28_QuantityWithinStock ==
    [][\A p \in Procs :
          (Commits(p, "AddToCart") \/ Commits(p, "UpdateCartItem")) =>
              LET now == WrittenCart(p).items
              IN LinesOfVariant(now, proc[p].item) # {} =>
                     FirstOfVariant(now, proc[p].item).quantity <= proc[p].product.stock]_vars

\* C29: every line of a cart has an identity that is not the zero identity and
\* differs from the identity of every other line of that cart.
C29_LineIdentityUnique ==
    \A i \in 1 .. Len(carts) :
        \A j, k \in 1 .. Len(carts[i].items) :
            /\ carts[i].items[j].id # ZeroID
            /\ carts[i].items[j].id = carts[i].items[k].id => j = k

\* C30: when ClearCart finds no cart record for the owner, the request handler
\* answers with status 404, not with 500.
C30_ClearHandlerNotFound ==
    \A p \in Procs :
        (Finished(p, "ClearCart", "CartNotFound") /\ ~HasCart(carts, proc[p].user)) =>
            ClearCartHandler(proc[p].res) = 404

=============================================================================
